---------------------------- MODULE Spec2Model ----------------------------
(***************************************************************************)
(* A model of the instruction protocol layer of versatus-javascript:       *)
(*   - the dispatcher, class Contract (lib/contracts/Contract.ts);         *)
(*   - the fluent builders of lasrctrl/cli-helpers.ts.                     *)
(* JavaScript values are records tagged by a field t, so that values of    *)
(* different kinds can be compared.                                        *)
(***************************************************************************)
EXTENDS Integers, Sequences, FiniteSets, TLC

VARIABLES
    methodStrategies,   \* Contract.methodStrategies: own properties and prototype
    registered,         \* history: names passed to addOrExtendMethodStrategy so far
    chain,              \* history: per name, the handlers registered since its last plain registration
    started,            \* history: a start call has begun
    last,               \* the last call made on the Contract and its outcome
    builder,            \* the builder under construction: its class and private fields
    supplied,           \* history: per list field, the items passed to add and extend calls, in call order
    out,                \* the value the last build() returned
    builtFrom,          \* history: builder, supplied and passed as they were when build() returned
    passed,             \* history: per scalar field, the argument of the last call of its setter
    lastCall,           \* the last method called on the builder and the reference it returned
    amountGiven,        \* the amount given to formatAmountToHex: a decimal string or a number
    hex,                \* the string formatAmountToHex returned
    decoded,            \* the string formatHexToAmount returned for hex
    stage,              \* which of amount, hex and decoded are there
    running,            \* the command-line helper called: its name and arguments
    pc,                 \* where the helper's execution is
    promise,            \* the promise the helper returned
    env,                \* process.env: LASR_RPC_URL and VIPFS_ADDRESS
    commands,           \* history: the external commands started, in order
    consoleLog,         \* history: the lines written to the console
    errorOutput,        \* runTestProcess: the stderr output collected
    keypairFile,        \* the content of the keypair file
    happened            \* history: child events delivered, file reads and wallet initializations

contractVars == <<methodStrategies, registered, chain, started, last>>

builderVars == <<builder, supplied, out, builtFrom, passed, lastCall>>

codecVars == <<amountGiven, hex, decoded, stage>>

cliVars == <<running, pc, promise, env, commands, consoleLog, errorOutput, keypairFile, happened>>

vars == <<methodStrategies, registered, chain, started, last, builder, supplied, out, builtFrom,
         passed, lastCall, amountGiven, hex, decoded, stage,
         running, pc, promise, env, commands, consoleLog, errorOutput, keypairFile, happened>>

(***************************************************************************)
(* Bounds and input sets                                                   *)
(***************************************************************************)
\* The handlers held by the table, composed ones counted per stage.
MaxSize == 3

\* The items held by the lists of one builder, and the length of one extension.
MaxItems == 2

\* The digits of the integer part and of the fractional part of an amount
\* drawn from CodecDigits.
MaxIntegerDigits == 2

MaxDecimalDigits == 2

\* The chunks of stderr data delivered to one runTestProcess call.
MaxChunks == 2

\* Method-name strings: an ordinary name, a name Object.prototype defines,
\* and the name of the prototype accessor.
Names == {"m", "toString", "__proto__"}

\* The functions a caller registers: h1 and reg return a value built from
\* their arguments, reg also registers a handler while it runs, boom throws.
UserFns == {"h1", "reg", "boom"}

AccountInfos == {[t |-> "account", id |-> "acct1"]}

(***************************************************************************)
(* JavaScript values                                                       *)
(***************************************************************************)
Undefined == [t |-> "undefined"]

Str(s) == [t |-> "string", s |-> s]

UserFn(h) == [t |-> "fn", kind |-> "user", id |-> h]

\* Object.prototype, and the two built-in functions a lookup of "toString"
\* can find on the prototype chain.
ObjectPrototype == [t |-> "object", id |-> "Object.prototype"]

ObjectToString == [t |-> "fn", kind |-> "builtin", id |-> "Object.prototype.toString"]

FunctionToString == [t |-> "fn", kind |-> "builtin", id |-> "Function.prototype.toString"]

\* The arrow function of lines 29-32, closed over originalStrategy and newStrategyFn.
Composed(originalStrategy, newStrategyFn) ==
    [t |-> "fn", kind |-> "composed",
     originalStrategy |-> originalStrategy, newStrategyFn |-> newStrategyFn]

Truthy(v) ==
    /\ v.t \notin {"undefined", "null"}
    /\ v.t = "string" => v.s # ""

NoError == [t |-> "none"]

Error(name, message) == [t |-> "error", name |-> name, message |-> message]

\* new Error(`Unknown method: ${contractFn}`)
UnknownMethodError(contractFn) == Error("Error", "Unknown method: " \o contractFn)

(***************************************************************************)
(* The method table: a plain object created by {}                          *)
(***************************************************************************)
\* this.methodStrategies = {}
EmptyTable == [own |-> <<>>, proto |-> ObjectPrototype]

\* A property read that reaches the prototype p.
ProtoGet(p, name) ==
    IF name # "toString" THEN Undefined
    ELSE IF p = ObjectPrototype THEN ObjectToString
    ELSE FunctionToString

\* this.methodStrategies[name]
Get(tbl, name) ==
    IF name = "__proto__" THEN tbl.proto
    ELSE IF name \in DOMAIN tbl.own THEN tbl.own[name]
    ELSE ProtoGet(tbl.proto, name)

\* this.methodStrategies[name] = v, v a function
Put(tbl, name, v) ==
    IF name = "__proto__" THEN [tbl EXCEPT !.proto = v]
    ELSE [tbl EXCEPT !.own =
             [x \in (DOMAIN tbl.own) \cup {name} |-> IF x = name THEN v ELSE tbl.own[x]]]

RECURSIVE FnSize(_)
FnSize(v) ==
    IF v.t # "fn" THEN 0
    ELSE IF v.kind = "composed" THEN FnSize(v.originalStrategy) + FnSize(v.newStrategyFn)
    ELSE IF v.kind = "user" THEN 1
    ELSE 0

RECURSIVE SumSizes(_, _)
SumSizes(own, names) ==
    IF names = {} THEN 0
    ELSE LET x == CHOOSE y \in names : TRUE
         IN  FnSize(own[x]) + SumSizes(own, names \ {x})

TableSize(tbl) == SumSizes(tbl.own, DOMAIN tbl.own) + FnSize(tbl.proto)

(***************************************************************************)
(* Contract.addOrExtendMethodStrategy                                      *)
(***************************************************************************)
\* The state a call works on: the table and the history kept beside it.
ContractState == [methodStrategies |-> methodStrategies, registered |-> registered, chain |-> chain]

\* The history of registrations: a plain registration starts the chain of a
\* name, an extension of a started chain appends to it.
ChainAfter(st, methodName, h, extend) ==
    IF ~extend THEN [st.chain EXCEPT ![methodName] = <<h>>]
    ELSE IF st.chain[methodName] # <<>> THEN [st.chain EXCEPT ![methodName] = Append(@, h)]
    ELSE st.chain

\* A variant that wraps the new handler inside the previous one.
addOrExtendMethodStrategy_Swapped(st, methodName, newStrategyFn, extend) ==
    LET tbl == st.methodStrategies
        entry == IF extend /\ Truthy(Get(tbl, methodName))
                 THEN [t |-> "fn", kind |-> "composed",
                       originalStrategy |-> newStrategyFn,
                       newStrategyFn |-> Get(tbl, methodName)]
                 ELSE newStrategyFn
    IN  [methodStrategies |-> Put(tbl, methodName, entry),
         registered |-> st.registered \cup {methodName},
         chain |-> ChainAfter(st, methodName, newStrategyFn.id, extend)]

addOrExtendMethodStrategy(st, methodName, newStrategyFn, extend) ==
    LET tbl == st.methodStrategies
        entry == IF extend /\ Truthy(Get(tbl, methodName))
                 THEN Composed(Get(tbl, methodName), newStrategyFn)
                 ELSE newStrategyFn
    IN  [methodStrategies |-> Put(tbl, methodName, entry),
         registered |-> st.registered \cup {methodName},
         chain |-> ChainAfter(st, methodName, newStrategyFn.id, extend)]

(***************************************************************************)
(* Calling a function value                                                *)
(***************************************************************************)
Args2(accountInfo, contractInput) ==
    [argc |-> 2, accountInfo |-> accountInfo, contractInput |-> contractInput,
     previous |-> Undefined]

Args3(accountInfo, contractInput, previous) ==
    [argc |-> 3, accountInfo |-> accountInfo, contractInput |-> contractInput,
     previous |-> previous]

CallEvent(f, args) == [ev |-> "call", fn |-> f, args |-> args]

ReturnEvent(f, value) == [ev |-> "return", fn |-> f, value |-> value]

ThrowEvent(f, error) == [ev |-> "throw", fn |-> f, error |-> error]

RegisterEvent(methodName) == [ev |-> "addOrExtendMethodStrategy", methodName |-> methodName]

Returned(st, trace, f, value) ==
    [status |-> "returned", value |-> value, error |-> NoError,
     st |-> st, trace |-> Append(trace, ReturnEvent(f, value))]

Threw(st, trace, f, error) ==
    [status |-> "threw", value |-> Undefined, error |-> error,
     st |-> st, trace |-> Append(trace, ThrowEvent(f, error))]

\* The value a registered function returns: it records the function and
\* the arguments it was called with.
Result(h, args) == [t |-> "result", by |-> h, args |-> args]

\* The registration the handler reg makes while it runs.
RegName == "m"

RegFn == UserFn("h1")

\* A function supplied by the caller, called with args.
CallUser(f, args, st, trace) ==
    IF f.id = "boom" THEN Threw(st, trace, f, Error("Error", "boom"))
    ELSE IF f.id = "reg"
    THEN Returned(addOrExtendMethodStrategy(st, RegName, RegFn, FALSE),
                  Append(trace, RegisterEvent(RegName)), f, Result(f.id, args))
    ELSE Returned(st, trace, f, Result(f.id, args))

\* A built-in function called with this = undefined.
CallBuiltin(f, args, st, trace) ==
    IF f = ObjectToString THEN Returned(st, trace, f, Str("[object Undefined]"))
    ELSE Threw(st, trace, f, Error("TypeError", "Function.prototype.toString requires that 'this' be a Function"))

RECURSIVE Call(_, _, _, _)

\* A variant that does not hand the original result to the new handler.
CallComposed_DropsPrevious(f, args, st, trace) ==
    LET originalResult ==
            Call(f.originalStrategy, Args2(args.accountInfo, args.contractInput), st, trace)
    IN  IF originalResult.status = "threw"
        THEN Threw(originalResult.st, originalResult.trace, f, originalResult.error)
        ELSE LET r == Call(f.newStrategyFn,
                           Args2(args.accountInfo, args.contractInput),
                           originalResult.st, originalResult.trace)
             IN  IF r.status = "threw" THEN Threw(r.st, r.trace, f, r.error)
                 ELSE Returned(r.st, r.trace, f, r.value)

\* Lines 29-32: the composed handler called with (accountInfo, contractInput).
CallComposed(f, args, st, trace) ==
    LET originalResult ==
            Call(f.originalStrategy, Args2(args.accountInfo, args.contractInput), st, trace)
    IN  IF originalResult.status = "threw"
        THEN Threw(originalResult.st, originalResult.trace, f, originalResult.error)
        ELSE LET r == Call(f.newStrategyFn,
                           Args3(args.accountInfo, args.contractInput, originalResult.value),
                           originalResult.st, originalResult.trace)
             IN  IF r.status = "threw" THEN Threw(r.st, r.trace, f, r.error)
                 ELSE Returned(r.st, r.trace, f, r.value)

\* f(args): every call is recorded in the trace with its return or throw.
Call(f, args, st, trace) ==
    LET t1 == Append(trace, CallEvent(f, args))
    IN  IF f.t # "fn"
        THEN Threw(st, t1, f, Error("TypeError", "strategy is not a function"))
        ELSE IF f.kind = "composed" THEN CallComposed(f, args, st, t1)
        ELSE IF f.kind = "builtin" THEN CallBuiltin(f, args, st, t1)
        ELSE CallUser(f, args, st, t1)

(***************************************************************************)
(* Contract.executeMethod and Contract.start                               *)
(***************************************************************************)
\* A variant that stores the strategy it looked up back into the table.
executeMethod_Caches(st, accountInfo, contractInput) ==
    LET contractFn == contractInput.contractFn
        strategy == Get(st.methodStrategies, contractFn)
        cached == [st EXCEPT !.methodStrategies = Put(@, contractFn, strategy)]
    IN  IF Truthy(strategy)
        THEN LET r == Call(strategy, Args2(accountInfo, contractInput), cached, <<>>)
             IN  [status |-> r.status, value |-> r.value, error |-> r.error,
                  st |-> r.st, trace |-> r.trace]
        ELSE [status |-> "threw", value |-> Undefined,
              error |-> UnknownMethodError(contractFn), st |-> st, trace |-> <<>>]

executeMethod(st, accountInfo, contractInput) ==
    LET contractFn == contractInput.contractFn
        strategy == Get(st.methodStrategies, contractFn)
    IN  IF Truthy(strategy)
        THEN LET r == Call(strategy, Args2(accountInfo, contractInput), st, <<>>)
             IN  [status |-> r.status, value |-> r.value, error |-> r.error,
                  st |-> r.st, trace |-> r.trace]
        ELSE [status |-> "threw", value |-> Undefined,
              error |-> UnknownMethodError(contractFn), st |-> st, trace |-> <<>>]

\* A variant that does not pass accountInfo on.
start_DropsAccountInfo(st, input) ==
    executeMethod(st, Undefined, input.contractInput)

start(st, input) ==
    executeMethod(st, input.accountInfo, input.contractInput)

Inputs ==
    {[accountInfo |-> a, contractInput |-> [contractFn |-> n]] :
        a \in AccountInfos, n \in Names}

(***************************************************************************)
(* The state machine of one Contract                                       *)
(***************************************************************************)
NoInput == [accountInfo |-> Undefined, contractInput |-> [contractFn |-> ""]]

InitLast ==
    [op |-> "new", methodName |-> "", handler |-> "", extend |-> FALSE,
     input |-> NoInput, wasRegistered |-> FALSE,
     status |-> "returned", value |-> Undefined, error |-> NoError, trace |-> <<>>]

\* new Contract()
InitContract ==
    /\ methodStrategies = EmptyTable
    /\ registered = {}
    /\ chain = [n \in Names |-> <<>>]
    /\ started = FALSE
    /\ last = InitLast

Install(st) ==
    /\ methodStrategies' = st.methodStrategies
    /\ registered' = st.registered
    /\ chain' = st.chain

AddOrExtendMethodStrategy ==
    \E methodName \in Names, h \in UserFns, extend \in BOOLEAN :
        LET st == addOrExtendMethodStrategy(ContractState, methodName, UserFn(h), extend)
        IN  /\ TableSize(st.methodStrategies) <= MaxSize
            /\ Install(st)
            /\ last' = [InitLast EXCEPT
                            !.op = "addOrExtendMethodStrategy",
                            !.methodName = methodName, !.handler = h, !.extend = extend,
                            !.wasRegistered = (methodName \in registered)]
            /\ UNCHANGED started
            /\ UNCHANGED <<builderVars, codecVars, cliVars>>

Outcome(op, input, r) ==
    [InitLast EXCEPT
        !.op = op, !.methodName = input.contractInput.contractFn, !.input = input,
        !.wasRegistered = (input.contractInput.contractFn \in registered),
        !.status = r.status, !.value = r.value, !.error = r.error, !.trace = r.trace]

Start ==
    \E input \in Inputs :
        LET r == start(ContractState, input)
        IN  /\ TableSize(r.st.methodStrategies) <= MaxSize
            /\ Install(r.st)
            /\ started' = TRUE
            /\ last' = Outcome("start", input, r)
            /\ UNCHANGED <<builderVars, codecVars, cliVars>>

ExecuteMethod ==
    \E input \in Inputs :
        LET r == executeMethod(ContractState, input.accountInfo, input.contractInput)
        IN  /\ TableSize(r.st.methodStrategies) <= MaxSize
            /\ Install(r.st)
            /\ last' = Outcome("executeMethod", input, r)
            /\ UNCHANGED started
            /\ UNCHANGED <<builderVars, codecVars, cliVars>>

NextContract ==
    \/ AddOrExtendMethodStrategy
    \/ Start
    \/ ExecuteMethod

(***************************************************************************)
(* Values the builders handle                                              *)
(***************************************************************************)
Null == [t |-> "null"]

\* An instance of class AddressOrNamespace, and of class Address.
AddressOrNamespace(variant, id) == [t |-> "AddressOrNamespace", variant |-> variant, id |-> id]

Address(id) == [t |-> "Address", variant |-> "address", id |-> id]

\* An instance of class TokenUpdateField.
TokenUpdateField(id) == [t |-> "TokenUpdateField", variant |-> "field", id |-> id]

\* Any other object of the data model, opaque to the builders.
Object(class, id) == [t |-> class, variant |-> "", id |-> id]

\* A plain object in wire form: { address: id }, { namespace: id }, ...
Plain(variant, id) == [t |-> "plain", variant |-> variant, id |-> id]

\* toJson() of AddressOrNamespace and of TokenUpdateField: the wrapper
\* flattened into its plain variant shape.
toJson(w) == Plain(w.variant, w.id)

\* v ?? null
OrNull(v) == IF v.t \in {"undefined", "null"} THEN Null ELSE v

\* An array held by a built value: the builder's own array object of a list
\* field, or an array of its own.
BuilderArray(field) == [alias |-> TRUE, of |-> field, items |-> <<>>]

OwnArray(items) == [alias |-> FALSE, of |-> "", items |-> items]

\* arr.map(f)
Map(f(_), arr) == [i \in 1..Len(arr) |-> f(arr[i])]

Same(x) == x

\* Constructors of the data model: each stores the arguments it is given.
Instruction(kind, value) == [t |-> "Instruction", kind |-> kind, value |-> value]

\* toJson() of Instruction: the wire object { <tag>: <payload> }.
Instruction_toJson(i) == [tag \in {i.kind} |-> i.value]

UpdateInstruction(updates) == [updates |-> updates]

TokenDistribution(programId, to, amount, tokenIds, updateFields) ==
    [t |-> "TokenDistribution", programId |-> programId, to |-> to, amount |-> amount,
     tokenIds |-> tokenIds, updateFields |-> updateFields]

CreateInstruction(programNamespace, programId, programOwner, totalSupply, initializedSupply, distribution) ==
    [programNamespace |-> programNamespace, programId |-> programId,
     programOwner |-> programOwner, totalSupply |-> totalSupply,
     initializedSupply |-> initializedSupply, distribution |-> distribution]

TransferInstruction(token, transferFrom, transferTo, amount, ids) ==
    [token |-> token, transferFrom |-> transferFrom, transferTo |-> transferTo,
     amount |-> amount, ids |-> ids]

BurnInstruction(caller, programId, token, burnFrom, amount, tokenIds) ==
    [caller |-> caller, programId |-> programId, token |-> token, burnFrom |-> burnFrom,
     amount |-> amount, tokenIds |-> tokenIds]

Outputs(inputs, instructions) ==
    [t |-> "Outputs", inputs |-> inputs, instructions |-> instructions]

(***************************************************************************)
(* The builders: private fields, methods, build()                          *)
(***************************************************************************)
\* Sequences of at most MaxItems items of S: the arguments of extend calls.
ItemLists(S) == UNION {[1..n -> S] : n \in 0..MaxItems}

TokenIds == {Str("t1"), Str("t2")}

Updates == {Object("TokenOrProgramUpdate", "u1"), Object("TokenOrProgramUpdate", "u2")}

UpdateFields == {TokenUpdateField("f1"), TokenUpdateField("f2")}

Distributions == {Object("TokenDistribution", "d1"), Object("TokenDistribution", "d2")}

Instructions == {Object("Instruction", "i1"), Object("Instruction", "i2")}

Set(method, field, args) == [method |-> method, effect |-> "set", field |-> field, args |-> args]

Push(method, field, args) == [method |-> method, effect |-> "push", field |-> field, args |-> args]

PushAll(method, field, args) == [method |-> method, effect |-> "pushAll", field |-> field, args |-> ItemLists(args)]

TokenUpdateBuilder ==
    [scalars |-> {"account", "token"}, lists |-> {"updates"},
     methods |-> {Set("addUpdateAccountAddress", "account", {AddressOrNamespace("address", "0x01")}),
                  Set("addTokenAddress", "token", {AddressOrNamespace("address", "0x02")}),
                  Push("addUpdateField", "updates", Updates)}]

TokenDistributionBuilder ==
    [scalars |-> {"programId", "to", "amount"}, lists |-> {"tokenIds", "updateFields"},
     methods |-> {Set("setProgramId", "programId",
                      {AddressOrNamespace("namespace", "this"), Plain("address", "0x01")}),
                  Set("setReceiver", "to", {AddressOrNamespace("address", "0x02")}),
                  Set("setAmount", "amount", {Str("1")}),
                  Push("addTokenId", "tokenIds", TokenIds),
                  PushAll("extendTokenIds", "tokenIds", TokenIds),
                  Push("addUpdateField", "updateFields", UpdateFields),
                  PushAll("extendUpdateFields", "updateFields", UpdateFields)}]

CreateInstructionBuilder ==
    [scalars |-> {"programNamespace", "programId", "programOwner", "totalSupply", "initializedSupply"},
     lists |-> {"distribution"},
     methods |-> {Set("setProgramNamespace", "programNamespace", {AddressOrNamespace("namespace", "this")}),
                  Set("setProgramId", "programId", {AddressOrNamespace("address", "0x01")}),
                  Set("setProgramOwner", "programOwner", {Address("0x02")}),
                  Set("setTotalSupply", "totalSupply", {Str("10")}),
                  Set("setInitializedSupply", "initializedSupply", {Str("1")}),
                  Push("addTokenDistribution", "distribution", Distributions),
                  PushAll("extendTokenDistribution", "distribution", Distributions)}]

UpdateInstructionBuilder ==
    [scalars |-> {}, lists |-> {"updates"},
     methods |-> {Push("addUpdate", "updates", Updates),
                  PushAll("extendUpdates", "updates", Updates)}]

TransferInstructionBuilder ==
    [scalars |-> {"token", "transferFrom", "transferTo", "amount"}, lists |-> {"ids"},
     methods |-> {Set("setTokenAddress", "token", {Address("0x01")}),
                  Set("setTransferFrom", "transferFrom", {AddressOrNamespace("namespace", "this")}),
                  Set("setTransferTo", "transferTo", {AddressOrNamespace("address", "0x02")}),
                  Set("setAmount", "amount", {Str("1"), Null}),
                  PushAll("addTokenIds", "ids", TokenIds),
                  PushAll("extendTokenIds", "ids", TokenIds)}]

BurnInstructionBuilder ==
    [scalars |-> {"caller", "programId", "token", "burnFrom", "amount"}, lists |-> {"tokenIds"},
     methods |-> {Set("setCaller", "caller", {Address("0x01")}),
                  Set("setProgramId", "programId", {AddressOrNamespace("namespace", "this")}),
                  Set("setTokenAddress", "token", {Address("0x02")}),
                  Set("setBurnFromAddress", "burnFrom", {AddressOrNamespace("address", "0x01")}),
                  Set("setAmount", "amount", {Str("1")}),
                  Push("addTokenId", "tokenIds", TokenIds),
                  PushAll("extendTokenIds", "tokenIds", TokenIds)}]

OutputBuilder ==
    [scalars |-> {"inputs"}, lists |-> {"instructions"},
     methods |-> {Set("setInputs", "inputs", {Object("ComputeInputs", "in1"), Object("ComputeInputs", "in2")}),
                  Push("addInstruction", "instructions", Instructions)}]

Classes ==
    [TokenUpdateBuilder |-> TokenUpdateBuilder,
     TokenDistributionBuilder |-> TokenDistributionBuilder,
     CreateInstructionBuilder |-> CreateInstructionBuilder,
     UpdateInstructionBuilder |-> UpdateInstructionBuilder,
     TransferInstructionBuilder |-> TransferInstructionBuilder,
     BurnInstructionBuilder |-> BurnInstructionBuilder,
     OutputBuilder |-> OutputBuilder]

\* A variant whose scalar fields are declared but not initialized.
New_Uninitialized(class) ==
    [class |-> class,
     fields |-> [f \in Classes[class].scalars |-> [t |-> "undefined"]],
     lists |-> [f \in Classes[class].lists |-> <<>>]]

\* new C(): every scalar field null, every list field [].
New(class) ==
    [class |-> class,
     fields |-> [f \in Classes[class].scalars |-> Null],
     lists |-> [f \in Classes[class].lists |-> <<>>]]

\* A variant that assigns a field only while it is null.
Assign_KeepsFirst(b, field, v) ==
    IF b.fields[field] = Null THEN [b EXCEPT !.fields[field] = v] ELSE b

\* this.field = v
Assign(b, field, v) == [b EXCEPT !.fields[field] = v]

\* A variant that puts the new items before the earlier ones.
push_Prepends(b, field, items) == [b EXCEPT !.lists[field] = items \o @]

\* A variant that keeps only the items of the last call.
push_Replaces(b, field, items) == [b EXCEPT !.lists[field] = items]

\* this.field.push(...items)
push(b, field, items) == [b EXCEPT !.lists[field] = @ \o items]

TokenUpdateBuilder_build(b) ==
    Instruction("update", UpdateInstruction(OwnArray(Map(Same, b.lists.updates))))

\* A variant that passes programId and to on as they were set.
TokenDistributionBuilder_build_Raw(b) ==
    TokenDistribution(b.fields.programId, b.fields.to, b.fields.amount,
                      OwnArray(Map(Same, b.lists.tokenIds)),
                      OwnArray(Map(toJson, b.lists.updateFields)))

TokenDistributionBuilder_build(b) ==
    LET programId == IF b.fields.programId.t = "AddressOrNamespace"
                     THEN toJson(b.fields.programId)
                     ELSE OrNull(b.fields.programId)
        to == IF b.fields.to.t = "AddressOrNamespace"
              THEN toJson(b.fields.to)
              ELSE OrNull(b.fields.to)
    IN  TokenDistribution(programId, to, b.fields.amount,
                          OwnArray(Map(Same, b.lists.tokenIds)),
                          OwnArray(Map(toJson, b.lists.updateFields)))

CreateInstructionBuilder_build(b) ==
    Instruction("create",
                CreateInstruction(b.fields.programNamespace, b.fields.programId,
                                  b.fields.programOwner, b.fields.totalSupply,
                                  b.fields.initializedSupply, BuilderArray("distribution")))

UpdateInstructionBuilder_build(b) ==
    Instruction("update", UpdateInstruction(BuilderArray("updates")))

TransferInstructionBuilder_build(b) ==
    LET token == OrNull(b.fields.token)
    IN  Instruction("transfer",
                    TransferInstruction(token, b.fields.transferFrom, b.fields.transferTo,
                                        b.fields.amount, BuilderArray("ids")))

\* A variant that tags the burn payload as a transfer.
BurnInstructionBuilder_build_AsTransfer(b) ==
    Instruction("transfer",
                BurnInstruction(b.fields.caller, b.fields.programId, b.fields.token,
                                b.fields.burnFrom, b.fields.amount, BuilderArray("tokenIds")))

BurnInstructionBuilder_build(b) ==
    Instruction("burn",
                BurnInstruction(b.fields.caller, b.fields.programId, b.fields.token,
                                b.fields.burnFrom, b.fields.amount, BuilderArray("tokenIds")))

OutputBuilder_build(b) ==
    Outputs(b.fields.inputs, BuilderArray("instructions"))

build(b) ==
    CASE b.class = "TokenUpdateBuilder" -> TokenUpdateBuilder_build(b)
      [] b.class = "TokenDistributionBuilder" -> TokenDistributionBuilder_build(b)
      [] b.class = "CreateInstructionBuilder" -> CreateInstructionBuilder_build(b)
      [] b.class = "UpdateInstructionBuilder" -> UpdateInstructionBuilder_build(b)
      [] b.class = "TransferInstructionBuilder" -> TransferInstructionBuilder_build(b)
      [] b.class = "BurnInstructionBuilder" -> BurnInstructionBuilder_build(b)
      [] b.class = "OutputBuilder" -> OutputBuilder_build(b)

(***************************************************************************)
(* Reading a built value                                                   *)
(***************************************************************************)
ListFields == {"updates", "tokenIds", "updateFields", "distribution", "ids", "instructions"}

\* The items of an array a built value holds, the builder being in state b.
Items(arr, b) == IF arr.alias THEN b.lists[arr.of] ELSE arr.items

\* The fields of a built payload, every array replaced by its items.
ReadFields(r, b) == [f \in DOMAIN r |-> IF f \in ListFields THEN Items(r[f], b) ELSE r[f]]

\* The payload of a built value: of an Instruction its value, else the value.
Payload(v) == IF v.t = "Instruction" THEN v.value ELSE v

\* A built value as a reader sees it, the builder being in state b.
Read(v, b) == ReadFields(Payload(v), b)

(***************************************************************************)
(* The state machine of one builder                                        *)
(***************************************************************************)
NoValue == [t |-> "undefined"]

NoBuilder == [class |-> "none", fields |-> <<>>, lists |-> <<>>]

NothingBuilt == [builder |-> NoBuilder, supplied |-> <<>>, passed |-> <<>>]

\* The builder instance the calls are made on.
This == [t |-> "builder", ref |-> 1]

\* A variant in which a method hands back another builder instance.
returnThis_Other == [t |-> "builder", ref |-> 2]

\* return this
returnThis == This

NoCall == [method |-> "", returned |-> NoValue]

\* A call of a setter, add or extend method, as it ends.
Called(method) == [method |-> method, returned |-> returnThis]

\* The references a caller holds after the last call: the variable the
\* builder was assigned to and, in a chain, what the last call returned.
Receivers == {This, lastCall.returned}

NoBuilderInUse ==
    /\ builder = NoBuilder
    /\ supplied = <<>>
    /\ out = NoValue
    /\ builtFrom = NothingBuilt
    /\ passed = <<>>
    /\ lastCall = NoCall

InitBuilders ==
    \E class \in DOMAIN Classes :
        /\ builder = New(class)
        /\ supplied = [f \in Classes[class].lists |-> <<>>]
        /\ out = NoValue
        /\ builtFrom = NothingBuilt
        /\ passed = [f \in Classes[class].scalars |-> NoValue]
        /\ lastCall = NoCall

Held(b) == LET n[S \in SUBSET DOMAIN b.lists] ==
                   IF S = {} THEN 0
                   ELSE LET f == CHOOSE g \in S : TRUE IN Len(b.lists[f]) + n[S \ {f}]
           IN  n[DOMAIN b.lists]

MethodsOf(b, effect) == {m \in Classes[b.class].methods : m.effect = effect}

\* A setX call: the field is assigned.
Setter ==
    \E m \in MethodsOf(builder, "set") : \E v \in m.args : \E receiver \in Receivers :
        /\ receiver = This
        /\ builder' = Assign(builder, m.field, v)
        /\ passed' = [passed EXCEPT ![m.field] = v]
        /\ lastCall' = Called(m.method)
        /\ UNCHANGED <<supplied, out, builtFrom>>
        /\ UNCHANGED <<contractVars, codecVars, cliVars>>

\* An addX call with one item: the item is pushed.
Adder ==
    \E m \in MethodsOf(builder, "push") : \E item \in m.args : \E receiver \in Receivers :
        /\ receiver = This
        /\ Held(builder) + 1 <= MaxItems
        /\ builder' = push(builder, m.field, <<item>>)
        /\ supplied' = [supplied EXCEPT ![m.field] = Append(@, item)]
        /\ lastCall' = Called(m.method)
        /\ UNCHANGED <<out, builtFrom, passed>>
        /\ UNCHANGED <<contractVars, codecVars, cliVars>>

\* An extendX call (or addTokenIds) with a list: its items are pushed.
Extender ==
    \E m \in MethodsOf(builder, "pushAll") : \E items \in m.args : \E receiver \in Receivers :
        /\ receiver = This
        /\ Held(builder) + Len(items) <= MaxItems
        /\ builder' = push(builder, m.field, items)
        /\ supplied' = [supplied EXCEPT ![m.field] = @ \o items]
        /\ lastCall' = Called(m.method)
        /\ UNCHANGED <<out, builtFrom, passed>>
        /\ UNCHANGED <<contractVars, codecVars, cliVars>>

\* A variant in which build() hands its lists over and starts afresh.
Build_Consumes ==
    \E receiver \in Receivers :
        /\ receiver = This
        /\ builder.class # "none"
        /\ out' = build(builder)
        /\ builtFrom' = [builder |-> builder, supplied |-> supplied, passed |-> passed]
        /\ lastCall' = [method |-> "build", returned |-> build(builder)]
        /\ builder' = [builder EXCEPT !.lists = [f \in DOMAIN builder.lists |-> <<>>]]
        /\ UNCHANGED <<supplied, passed>>
        /\ UNCHANGED <<contractVars, codecVars, cliVars>>

Build ==
    \E receiver \in Receivers :
        /\ receiver = This
        /\ builder.class # "none"
        /\ out' = build(builder)
        /\ builtFrom' = [builder |-> builder, supplied |-> supplied, passed |-> passed]
        /\ lastCall' = [method |-> "build", returned |-> build(builder)]
        /\ UNCHANGED <<builder, supplied, passed>>
        /\ UNCHANGED <<contractVars, codecVars, cliVars>>

NextBuilders ==
    \/ Setter
    \/ Adder
    \/ Extender
    \/ Build

(***************************************************************************)
(* The numeric codec: strings, arbitrary-precision integers                *)
(***************************************************************************)
\* A string is the sequence of its characters.
HexChars == <<"0", "1", "2", "3", "4", "5", "6", "7", "8", "9", "a", "b", "c", "d", "e", "f">>

\* The fixed-point scale: an amount is scaled by 10^Decimals.
Decimals == 18

\* The hex digits of an amount on the wire.
HexWidth == 64

DigitOf(c) == CHOOSE i \in 0..15 : HexChars[i + 1] = c

CharOf(i) == HexChars[i + 1]

\* s.padEnd(n, c), s.padStart(n, c), s.slice(0, n)
padEnd(s, n, c) == IF Len(s) >= n THEN s ELSE s \o [i \in 1..(n - Len(s)) |-> c]

padStart(s, n, c) == IF Len(s) >= n THEN s ELSE [i \in 1..(n - Len(s)) |-> c] \o s

slice(s, n) == SubSeq(s, 1, IF n < Len(s) THEN n ELSE Len(s))

\* s.indexOf(c), 1-based; 0 when c is not in s.
indexOf(s, c) ==
    IF \E i \in 1..Len(s) : s[i] = c
    THEN CHOOSE i \in 1..Len(s) : s[i] = c /\ \A j \in 1..(i - 1) : s[j] # c
    ELSE 0

\* const [integerPart, decimalPart = ''] = s.split('.')
integerPart(s) == IF indexOf(s, ".") = 0 THEN s ELSE SubSeq(s, 1, indexOf(s, ".") - 1)

decimalPart(s) == IF indexOf(s, ".") = 0 THEN <<>> ELSE SubSeq(s, indexOf(s, ".") + 1, Len(s))

RECURSIVE trimEnd(_, _)
\* s without its trailing characters c
trimEnd(s, c) ==
    IF s # <<>> /\ s[Len(s)] = c THEN trimEnd(SubSeq(s, 1, Len(s) - 1), c) ELSE s

RECURSIVE Normal(_)
\* An arbitrary-precision integer is the sequence of its decimal digits, most
\* significant first, without leading zeros; zero is <<0>>.
Normal(ds) ==
    IF ds = <<>> THEN <<0>>
    ELSE IF Len(ds) > 1 /\ ds[1] = 0 THEN Normal(Tail(ds)) ELSE ds

RECURSIVE LongDiv(_, _, _, _)
\* Long division of the number with digits ds in base B by k, rem carried
\* in: the digits of the quotient and the remainder.
LongDiv(ds, B, k, rem) ==
    IF ds = <<>> THEN [q |-> <<>>, r |-> rem]
    ELSE LET cur == rem * B + ds[1]
             rest == LongDiv(Tail(ds), B, k, cur % k)
         IN  [q |-> <<cur \div k>> \o rest.q, r |-> rest.r]

RECURSIVE ToBase(_, _, _)
\* The digits in base k of the number with digits ds in base B.
ToBase(ds, B, k) ==
    LET d == LongDiv(ds, B, k, 0)
    IN  IF Normal(d.q) = <<0>> THEN <<d.r>> ELSE ToBase(Normal(d.q), B, k) \o <<d.r>>

\* BigInt(s) of a string of decimal digits, or of "0x" and hex digits.
BigInt(s) ==
    IF Len(s) >= 2 /\ s[2] = "x"
    THEN ToBase(Normal([i \in 1..(Len(s) - 2) |-> DigitOf(s[i + 2])]), 16, 10)
    ELSE Normal([i \in 1..Len(s) |-> DigitOf(s[i])])

\* n.toString(radix) of a BigInt
toString(n, radix) ==
    LET ds == IF radix = 10 THEN n ELSE ToBase(n, 10, radix)
    IN  [i \in 1..Len(ds) |-> CharOf(ds[i])]

\* An amount: a string, or a number.
Text(chars) == [t |-> "string", chars |-> chars]

Number(n) == [t |-> "number", value |-> n]

\* String(a): a string is itself, a non-negative integer its decimal digits.
String(a) ==
    IF a.t = "string" THEN a.chars
    ELSE LET ds == ToBase(<<a.value \div 10, a.value % 10>>, 10, 10)
         IN  [i \in 1..Len(ds) |-> CharOf(ds[i])]

\* A variant that does not pad the fractional part.
parseAmountToBigInt_Unpadded(a) ==
    BigInt(integerPart(String(a)) \o slice(decimalPart(String(a)), Decimals))

\* The integer and fractional parts are taken apart, the fractional part is
\* right-padded or truncated to Decimals digits, and the two are read as one
\* integer.
parseAmountToBigInt(a) ==
    BigInt(integerPart(String(a)) \o slice(padEnd(decimalPart(String(a)), Decimals, "0"), Decimals))

\* Lower-case hex, left-padded to HexWidth digits, after "0x".
formatBigIntToHex(n) == <<"0", "x">> \o padStart(toString(n, 16), HexWidth, "0")

formatAmountToHex(a) == formatBigIntToHex(parseAmountToBigInt(a))

\* A variant that keeps the trailing zeros of the fractional part.
formatHexToAmount_Untrimmed(hexString) ==
    LET digits == padStart(toString(BigInt(hexString), 10), Decimals + 1, "0")
    IN  SubSeq(digits, 1, Len(digits) - Decimals) \o <<".">>
            \o SubSeq(digits, Len(digits) - Decimals + 1, Len(digits))

\* The decimal string of the hex amount at full precision, trailing zeros
\* trimmed.
formatHexToAmount(hexString) ==
    LET digits == padStart(toString(BigInt(hexString), 10), Decimals + 1, "0")
        whole == SubSeq(digits, 1, Len(digits) - Decimals)
        fraction == trimEnd(SubSeq(digits, Len(digits) - Decimals + 1, Len(digits)), "0")
    IN  IF fraction = <<>> THEN whole ELSE whole \o <<".">> \o fraction

(***************************************************************************)
(* The state machine of one conversion                                     *)
(***************************************************************************)
CodecDigits == {"0", "1", "9"}

\* The strings of lo to hi characters of S.
Strings(S, lo, hi) == UNION {[1..n -> S] : n \in lo..hi}

\* The decimal strings "i" and "i.f" over CodecDigits.
ShortAmounts ==
    {Text(i \o (IF f = <<>> THEN <<>> ELSE <<".">> \o f)) :
        i \in Strings(CodecDigits, 1, MaxIntegerDigits),
        f \in Strings(CodecDigits, 0, MaxDecimalDigits)}

\* The amounts the test script converts.
ScriptAmounts ==
    {Text(<<"0", ".", "0", "0", "0", "0", "0", "0", "0", "0", "0", "0", "1">>),
     Text(<<"1", ".", "2", "3", "4", "2", "3", "4">>),
     Text(<<"2", "3", "5", "4", "3", ".", "2", "3", "8", "8", "3", "8", "3", "7", "3", "7">>),
     Text(<<"1", "2", "3", "1", "2", "4", "3", ".", "1", "2">>),
     Text(<<"6", "0", "0", "9", "4", ".", "2", "7", "4", "5", "4", "4", "7", "3", "2", "5", "5", "4", "8", "8", "8", "4", "2", "4">>),
     Text(<<"0", ".", "0", "0", "0", "0", "0", "0", "0", "0", "0", "0", "0", "0", "0", "0", "0", "0", "0", "1">>),
     Number(0), Number(1), Number(10)}

Amounts == ShortAmounts \cup ScriptAmounts

NoAmount == [t |-> "undefined"]

NoCodecInUse ==
    /\ amountGiven = NoAmount
    /\ hex = <<>>
    /\ decoded = <<>>
    /\ stage = "none"

InitCodec ==
    /\ amountGiven \in Amounts
    /\ hex = <<>>
    /\ decoded = <<>>
    /\ stage = "amount"

FormatAmountToHex ==
    /\ stage = "amount"
    /\ hex' = formatAmountToHex(amountGiven)
    /\ stage' = "hex"
    /\ UNCHANGED <<amountGiven, decoded>>
    /\ UNCHANGED <<contractVars, builderVars, cliVars>>

FormatHexToAmount ==
    /\ stage = "hex"
    /\ decoded' = formatHexToAmount(hex)
    /\ stage' = "decoded"
    /\ UNCHANGED <<amountGiven, hex>>
    /\ UNCHANGED <<contractVars, builderVars, cliVars>>

NextCodec ==
    \/ FormatAmountToHex
    \/ FormatHexToAmount

(***************************************************************************)
(* The command-line helpers: promises, the process, external commands      *)
(***************************************************************************)
Pending == [state |-> "pending", value |-> Undefined]

\* A variant in which a later resolve or reject call replaces the outcome.
Settle_Overwrites(p, state, value) == [state |-> state, value |-> value]

\* resolve(value) and reject(value): the first call settles the promise, a
\* call on a settled promise does nothing.
Settle(p, state, value) ==
    IF p.state = "pending" THEN [state |-> state, value |-> value] ELSE p

\* process.env.LASR_RPC_URL and process.env.VIPFS_ADDRESS
EnvUnset == [LASR_RPC_URL |-> Undefined, VIPFS_ADDRESS |-> Undefined]

\* A command handed to the operating system by exec, spawn or runCommand.
Command(via, text) == [via |-> via, text |-> text]

\* A line written by console.log or console.error.
Line(stream, text) == [stream |-> stream, text |-> text]

\* `${v}` of a string, undefined, null or a number
Template(v) ==
    CASE v.t = "string" -> v.s
      [] v = Undefined -> "undefined"
      [] v = Null -> "null"
      [] v = Number(0) -> "0"
      [] v = Number(1) -> "1"

\* String(b) of a boolean
BooleanString(b) == IF b THEN "true" ELSE "false"

NoHelper == [fn |-> "", args |-> <<>>]

NoCliInUse ==
    /\ running = NoHelper
    /\ pc = "none"
    /\ promise = Pending
    /\ env = EnvUnset
    /\ commands = <<>>
    /\ consoleLog = <<>>
    /\ errorOutput = ""
    /\ keypairFile = Undefined
    /\ happened = <<>>

(***************************************************************************)
(* runTestProcess                                                          *)
(***************************************************************************)
InputJsonPaths == {"inputs.json", "fail.json"}

Targets == {"node", "wasm"}

\* inputJsonPath.includes('fail')
IncludesFail(inputJsonPath) == inputJsonPath = "fail.json"

\* The chunks the child writes to stderr, and the codes it exits with: 0, 1,
\* or null when a signal ended it.
Chunks == {"e1;", "e2;"}

ExitCodes == {Number(0), Number(1), Null}

DataEvent(chunk) == [ev |-> "data", chunk |-> chunk, code |-> Undefined]

ErrorEvent == [ev |-> "error", chunk |-> "", code |-> Undefined]

ExitEvent(code) == [ev |-> "exit", chunk |-> "", code |-> code]

Emitted(ev) == \E i \in 1..Len(happened) : happened[i].ev = ev

DataEmitted == Cardinality({i \in 1..Len(happened) : happened[i].ev = "data"})

\* The call: the test script is spawned, the three handlers are registered
\* and the pending promise is returned.
RunTestProcess ==
    \E inputJsonPath \in InputJsonPaths, target \in Targets :
        /\ pc = "idle"
        /\ running' = [fn |-> "runTestProcess",
                       args |-> [programName |-> "prog", inputJsonPath |-> inputJsonPath,
                                 target |-> target, showOutput |-> TRUE]]
        /\ commands' = Append(commands,
                              Command("spawn",
                                      "bash " \o (IF target = "node" THEN "test-node.sh" ELSE "test-wasm.sh")
                                          \o " prog " \o inputJsonPath \o " " \o BooleanString(TRUE)
                                          \o " " \o BooleanString(IncludesFail(inputJsonPath))))
        /\ errorOutput' = ""
        /\ promise' = Pending
        /\ pc' = "testProcess"
        /\ UNCHANGED <<env, consoleLog, keypairFile, happened>>
        /\ UNCHANGED <<contractVars, builderVars, codecVars>>

\* testProcess.stderr.on('data', ...): the chunk is appended to errorOutput.
\* The stream can deliver data after the child's exit event as well.
StderrData ==
    \E chunk \in Chunks :
        /\ pc = "testProcess"
        /\ DataEmitted < MaxChunks
        /\ errorOutput' = errorOutput \o chunk
        /\ happened' = Append(happened, DataEvent(chunk))
        /\ UNCHANGED <<running, pc, promise, env, commands, consoleLog, keypairFile>>
        /\ UNCHANGED <<contractVars, builderVars, codecVars>>

\* testProcess.on('error', ...): emitted at most once, before or after exit.
ChildError ==
    /\ pc = "testProcess"
    /\ ~Emitted("error")
    /\ promise' = Settle(promise, "rejected", "Spawn error: Error")
    /\ happened' = Append(happened, ErrorEvent)
    /\ UNCHANGED <<running, pc, env, commands, consoleLog, errorOutput, keypairFile>>
    /\ UNCHANGED <<contractVars, builderVars, codecVars>>

\* testProcess.on('exit', ...): emitted at most once.
ChildExit ==
    \E code \in ExitCodes :
        /\ pc = "testProcess"
        /\ ~Emitted("exit")
        /\ promise' = IF code # Number(0)
                      THEN Settle(promise, "rejected",
                                  "Exited with code " \o Template(code) \o ": " \o errorOutput)
                      ELSE Settle(promise, "fulfilled",
                                  "Test for " \o running.args.inputJsonPath \o " passed")
        /\ happened' = Append(happened, ExitEvent(code))
        /\ UNCHANGED <<running, pc, env, commands, consoleLog, errorOutput, keypairFile>>
        /\ UNCHANGED <<contractVars, builderVars, codecVars>>

(***************************************************************************)
(* runBuildProcess and buildNode                                           *)
(***************************************************************************)
\* path.parse(buildPath).name of the build paths given.
ParsedName == [p \in {"src/hello.ts", "counter.ts"} |-> IF p = "counter.ts" THEN "counter" ELSE "hello"]

BuildPaths == DOMAIN ParsedName

ExecCallback(tscError) == [ev |-> "callback", tscError |-> tscError]

\* A variant in which buildNode's promise waits for the callback of exec.
buildNode_Awaits(buildPath, isInstalledPackage) ==
    [command |-> Command("exec", "npx webpack --entry " \o buildPath),
     promise |-> Pending]

\* The body of buildNode up to its end: the webpack command is handed to
\* exec with a callback, nothing is awaited, and the async function returns,
\* which fulfils its promise with undefined.
buildNode(buildPath, isInstalledPackage) ==
    [command |-> Command("exec",
                         "npx webpack --config "
                             \o (IF isInstalledPackage
                                 THEN "node_modules/@versatus/versatus-javascript/webpack.config.js"
                                 ELSE "./webpack.config.js")
                             \o " --entry " \o buildPath
                             \o " --output-path ./build/lib --output-filename "
                             \o ParsedName[buildPath] \o ".js --mode production"),
     promise |-> Settle(Pending, "fulfilled", Undefined)]

\* A direct call of buildNode.
BuildNode ==
    \E buildPath \in BuildPaths, isInstalledPackage \in BOOLEAN :
        LET r == buildNode(buildPath, isInstalledPackage)
        IN  /\ pc = "idle"
            /\ running' = [fn |-> "buildNode", args |-> [buildPath |-> buildPath]]
            /\ commands' = Append(commands, r.command)
            /\ promise' = r.promise
            /\ pc' = "webpack"
            /\ UNCHANGED <<env, consoleLog, errorOutput, keypairFile, happened>>
            /\ UNCHANGED <<contractVars, builderVars, codecVars>>

\* runBuildProcess up to its await: buildNode has run, the promise of
\* runBuildProcess is pending until the continuation runs as a microtask.
RunBuildProcess ==
    \E programFilePath \in BuildPaths, isInstalledPackage \in BOOLEAN :
        LET r == buildNode(programFilePath, isInstalledPackage)
        IN  /\ pc = "idle"
            /\ running' = [fn |-> "runBuildProcess",
                           args |-> [buildPath |-> programFilePath, awaited |-> r.promise]]
            /\ commands' = Append(commands, r.command)
            /\ promise' = Pending
            /\ pc' = "await buildNode"
            /\ UNCHANGED <<env, consoleLog, errorOutput, keypairFile, happened>>
            /\ UNCHANGED <<contractVars, builderVars, codecVars>>

\* The continuation of runBuildProcess: it runs once the awaited promise is
\* settled, and the promise of runBuildProcess follows that promise.
ResumeRunBuildProcess ==
    /\ pc = "await buildNode"
    /\ running.args.awaited.state # "pending"
    /\ promise' = Settle(promise, running.args.awaited.state, Undefined)
    /\ pc' = "webpack"
    /\ UNCHANGED <<running, env, commands, consoleLog, errorOutput, keypairFile, happened>>
    /\ UNCHANGED <<contractVars, builderVars, codecVars>>

\* The webpack command has finished and the callback of exec runs: an error
\* is written to console.error, a success to console.log. Callbacks of child
\* processes run only when no microtask is waiting, so the continuation of
\* runBuildProcess has run before.
WebpackCallback ==
    \E tscError \in {Null, Str("Error: Command failed")} :
        /\ pc = "webpack"
        /\ consoleLog' =
              IF tscError # Null
              THEN Append(consoleLog,
                          Line("error", "Error during TypeScript transpilation: " \o tscError.s))
              ELSE consoleLog \o <<Line("log", "Build complete..."),
                                   Line("log", "Ready to run:"),
                                   Line("log", "lasrctl test -p " \o ParsedName[running.args.buildPath]
                                                   \o " -i inputs")>>
        /\ happened' = Append(happened, ExecCallback(tscError))
        /\ pc' = "done"
        /\ UNCHANGED <<running, promise, env, commands, errorOutput, keypairFile>>
        /\ UNCHANGED <<contractVars, builderVars, codecVars>>

(***************************************************************************)
(* callCreate, sendTokens and callProgram                                  *)
(***************************************************************************)
\* The values an argument is given: missing, empty, or a text.
Words == {Undefined, Str(""), Str("0x1")}

\* Texts that JSON.parse does not accept, alone or between the quotes of the
\* template of callCreate.
Unparsable == {"say \"hi\"", "{bad"}

\* A variant of the validation that throws only when every argument fails.
Missing_All(a, names) == \A n \in names : ~Truthy(a[n])

\* !a || !b || ... over the arguments named.
Missing(a, names) == \E n \in names : ~Truthy(a[n])

\* getRPCForNetwork(network) and getIPFSForNetwork(network), as the values
\* assigned to process.env.
NetworkEnv(network) ==
    [LASR_RPC_URL |-> Str("rpc url of " \o network.s),
     VIPFS_ADDRESS |-> Str("ipfs address of " \o network.s)]

\* The synchronous part of callCreate: what it throws, or the environment it
\* assigns and the command it hands to runCommand.
callCreate(a) ==
    IF Missing(a, {"programAddress", "symbol", "name", "initializedSupply",
                   "recipientAddress", "totalSupply", "secretKey"})
    THEN [thrown |-> Error("Error",
                           "programAddress (" \o Template(a.programAddress)
                               \o "), symbol (" \o Template(a.symbol)
                               \o "), name (" \o Template(a.name)
                               \o "), initializedSupply (" \o Template(a.initializedSupply)
                               \o "), totalSupply(" \o Template(a.totalSupply)
                               \o "), and secretKey are required to call create.")]
    ELSE IF \/ \E n \in {"name", "symbol", "initializedSupply", "totalSupply", "recipientAddress"} :
                   Template(a[n]) \in Unparsable
            \/ Truthy(a.inputs) /\ Template(a.inputs) \in Unparsable
    THEN [thrown |-> Error("SyntaxError", "JSON.parse")]
    ELSE [thrown |-> NoError,
          env |-> NetworkEnv(a.network),
          command |-> "./build/lasr_cli wallet call --from-secret-key --secret-key \""
                          \o Template(a.secretKey) \o "\" --op \"create\" --inputs '{\"name\":\""
                          \o Template(a.name) \o "\",\"symbol\":\"" \o Template(a.symbol)
                          \o "\",\"initializedSupply\":\"" \o Template(a.initializedSupply)
                          \o "\",\"totalSupply\":\"" \o Template(a.totalSupply)
                          \o "\",\"to\":\"" \o Template(a.recipientAddress) \o "\""
                          \o (IF Truthy(a.inputs) THEN ",\"k\":\"v\"" ELSE "")
                          \o "}' --to \"" \o Template(a.programAddress)
                          \o "\" --content-namespace \"" \o Template(a.programAddress) \o "\""]

sendTokens(a) ==
    IF Missing(a, {"programAddress", "recipientAddress", "amount", "secretKey"})
    THEN [thrown |-> Error("Error",
                           "programAddress (" \o Template(a.programAddress)
                               \o "), recipientAddress (" \o Template(a.recipientAddress)
                               \o "), amount (" \o Template(a.amount)
                               \o "), and secretKey are required to call create.")]
    ELSE [thrown |-> NoError,
          env |-> NetworkEnv(a.network),
          command |-> "./build/lasr_cli wallet send --to " \o Template(a.recipientAddress)
                          \o " -c " \o Template(a.programAddress) \o " --value " \o Template(a.amount)
                          \o " -u verse --from-secret-key --secret-key \""
                          \o Template(a.secretKey) \o "\""]

callProgram(a) ==
    IF Missing(a, {"programAddress", "op", "inputs", "secretKey"})
    THEN [thrown |-> Error("Error",
                           "programAddress (" \o Template(a.programAddress)
                               \o "), op (" \o Template(a.op)
                               \o "), inputs (" \o Template(a.inputs)
                               \o "), and secretKey are required to call create.")]
    ELSE [thrown |-> NoError,
          env |-> NetworkEnv(a.network),
          command |-> "./build/lasr_cli wallet call --from-secret-key --secret-key \""
                          \o Template(a.secretKey) \o "\" --op " \o Template(a.op) \o " --inputs '"
                          \o Template(a.inputs) \o "' --to " \o Template(a.programAddress)
                          \o " --content-namespace " \o Template(a.programAddress)]

\* A call of one of the three, up to its throw or to its await of runCommand:
\* a throw in an async function rejects its promise.
Invoke(fn, a, r) ==
    /\ running' = [fn |-> fn, args |-> a]
    /\ IF r.thrown # NoError
       THEN /\ promise' = Settle(Pending, "rejected", r.thrown)
            /\ pc' = "done"
            /\ UNCHANGED <<env, commands>>
       ELSE /\ env' = r.env
            /\ commands' = Append(commands, Command("runCommand", r.command))
            /\ promise' = Pending
            /\ pc' = "runCommand"
    /\ UNCHANGED <<consoleLog, errorOutput, keypairFile, happened>>
    /\ UNCHANGED <<contractVars, builderVars, codecVars>>

CallCreate ==
    /\ pc = "idle"
    /\ \E a \in [programAddress : Words, symbol : Words,
                 name : Words \cup {Str("say \"hi\"")},
                 initializedSupply : Words, totalSupply : Words,
                 recipientAddress : Words, network : {Str("stable"), Str("test")},
                 secretKey : Words,
                 inputs : {Undefined, Str("{\"k\":\"v\"}"), Str("{bad")}] :
           Invoke("callCreate", a, callCreate(a))

SendTokens ==
    /\ pc = "idle"
    /\ \E a \in [programAddress : Words, recipientAddress : Words, amount : Words,
                 secretKey : Words, network : {Str("stable"), Str("test")}] :
           Invoke("sendTokens", a, sendTokens(a))

CallProgram ==
    /\ pc = "idle"
    /\ \E a \in [programAddress : Words, op : Words,
                 inputs : {Undefined, Str(""), Str("{\"k\":\"v\"}")},
                 network : {Str("stable"), Str("test")}, secretKey : Words] :
           Invoke("callProgram", a, callProgram(a))

\* runCommand settles: with the output of the command, or with its failure.
\* The awaiting function returns the output or throws the failure on.
RunCommandSettles ==
    \E outcome \in {"fulfilled", "rejected"} :
        /\ pc = "runCommand"
        /\ promise' = Settle(promise, outcome,
                             IF outcome = "fulfilled" THEN Str("output")
                             ELSE Error("Error", "Command failed"))
        /\ pc' = "done"
        /\ UNCHANGED <<running, env, commands, consoleLog, errorOutput, keypairFile, happened>>
        /\ UNCHANGED <<contractVars, builderVars, codecVars>>

(***************************************************************************)
(* getSecretKeyFromKeyPairFile and initializeWallet                        *)
(***************************************************************************)
\* What the keypair file can hold: no file at all, text that is no JSON,
\* null, an empty array, an array of one key pair.
FileContents ==
    {Undefined, Str("{bad"), Str("null"), Str("[]"), Str("[{\"secret_key\":\"k1\"}]")}

\* await fsp.readFile(absolutePath, 'utf8') followed by JSON.parse: the
\* error thrown, or the value parsed.
ReadAndParse(content) ==
    CASE content = Undefined -> Error("Error", "ENOENT: no such file or directory")
      [] content.s \in Unparsable -> Error("SyntaxError", "JSON.parse")
      [] content.s = "null" -> Null
      [] content.s = "[]" -> [t |-> "array", items |-> <<>>]
      [] OTHER -> [t |-> "array", items |-> <<[secret_key |-> Str("k1")]>>]

\* A variant whose second failure initializes the wallet again.
OnReadFailure_Again(attempt) == "initializeWallet"

\* Where a failed read or parse goes: the first, in the inner try, to the
\* inner catch; the second, in the inner catch, to the outer catch.
OnReadFailure(attempt) == IF attempt = 1 THEN "initializeWallet" ELSE "throw"

ReadEvent(failed) == [ev |-> "readFile", failed |-> failed]

WalletEvent(ev, failed) == [ev |-> ev, failed |-> failed]

\* The outer catch: console.error, then the error is thrown on, which
\* rejects the promise of getSecretKeyFromKeyPairFile.
OuterCatch(error) ==
    /\ consoleLog' = Append(consoleLog,
                            Line("error", "Failed to retrieve the secret key: "
                                              \o error.name \o ": " \o error.message))
    /\ promise' = Settle(promise, "rejected", error)
    /\ pc' = "done"

\* The call up to its first await: the first readFile is under way.
GetSecretKeyFromKeyPairFile ==
    /\ pc = "idle"
    /\ \E content \in FileContents : keypairFile' = content
    /\ running' = [fn |-> "getSecretKeyFromKeyPairFile",
                   args |-> [keypairFilePath |-> Str(".lasr/wallet/keypair.json"), attempt |-> 1]]
    /\ consoleLog' = Append(consoleLog, Line("log", "Getting secret key from keypair file"))
    /\ promise' = Pending
    /\ pc' = "readFile"
    /\ UNCHANGED <<env, commands, errorOutput, happened>>
    /\ UNCHANGED <<contractVars, builderVars, codecVars>>

\* readFile settles and its content is parsed. A failure goes to the inner
\* or the outer catch; a value goes on to the end of the function.
ReadFileSettles ==
    LET keyPairs == ReadAndParse(keypairFile)
        attempt == running.args.attempt
    IN  /\ pc = "readFile"
        /\ IF keyPairs.t = "error"
           THEN IF OnReadFailure(attempt) = "initializeWallet"
                THEN /\ happened' = happened \o <<ReadEvent(keyPairs),
                                                  WalletEvent("initializeWallet", NoError)>>
                     /\ commands' = Append(commands,
                                           Command("runCommand", "./build/lasr_cli wallet new --save"))
                     /\ pc' = "initializeWallet"
                     /\ UNCHANGED <<promise, consoleLog>>
                ELSE /\ happened' = Append(happened, ReadEvent(keyPairs))
                     /\ OuterCatch(keyPairs)
                     /\ UNCHANGED commands
           ELSE /\ happened' = Append(happened, ReadEvent(NoError))
                /\ UNCHANGED commands
                /\ IF keyPairs = Null
                   THEN OuterCatch(Error("TypeError", "Cannot read properties of null"))
                   ELSE /\ promise' = Settle(promise, "fulfilled",
                                             IF Len(keyPairs.items) > 0
                                             THEN keyPairs.items[1].secret_key
                                             ELSE Str(""))
                        /\ pc' = "done"
                        /\ UNCHANGED consoleLog
        /\ UNCHANGED <<running, env, errorOutput, keypairFile>>
        /\ UNCHANGED <<contractVars, builderVars, codecVars>>

\* The command of initializeWallet settles. On success it may have written
\* the keypair file, initializeWallet logs and returns, and the second
\* readFile is under way; on failure the error reaches the outer catch.
InitializeWalletSettles ==
    /\ pc = "initializeWallet"
    /\ \/ /\ \E content \in FileContents : keypairFile' = content
          /\ happened' = Append(happened, WalletEvent("initialized", NoError))
          /\ consoleLog' = Append(consoleLog,
                                  Line("log", "Wallet initialized and keypair.json created at ./.lasr/wallet/keypair.json"))
          /\ running' = [running EXCEPT !.args.attempt = @ + 1]
          /\ pc' = "readFile"
          /\ UNCHANGED promise
       \/ /\ happened' = Append(happened, WalletEvent("initialized", Error("Error", "Command failed")))
          /\ OuterCatch(Error("Error", "Command failed"))
          /\ UNCHANGED <<running, keypairFile>>
    /\ UNCHANGED <<env, commands, errorOutput>>
    /\ UNCHANGED <<contractVars, builderVars, codecVars>>

(***************************************************************************)
(* The state machine of one helper call                                    *)
(***************************************************************************)
InitCliHelpers ==
    /\ running = NoHelper
    /\ pc = "idle"
    /\ promise = Pending
    /\ env = EnvUnset
    /\ commands = <<>>
    /\ consoleLog = <<>>
    /\ errorOutput = ""
    /\ keypairFile = Undefined
    /\ happened = <<>>

NextCli ==
    \/ RunTestProcess
    \/ StderrData
    \/ ChildError
    \/ ChildExit
    \/ BuildNode
    \/ RunBuildProcess
    \/ ResumeRunBuildProcess
    \/ WebpackCallback
    \/ CallCreate
    \/ SendTokens
    \/ CallProgram
    \/ RunCommandSettles
    \/ GetSecretKeyFromKeyPairFile
    \/ ReadFileSettles
    \/ InitializeWalletSettles

\* One Contract, no builder in use.
InitC == InitContract /\ NoBuilderInUse /\ NoCodecInUse /\ NoCliInUse

SpecContract == InitC /\ [][NextContract]_vars

\* One builder of any class, the Contract left as constructed.
InitB == InitBuilders /\ InitContract /\ NoCodecInUse /\ NoCliInUse

SpecBuilders == InitB /\ [][NextBuilders]_vars

\* One amount to convert, the Contract as constructed, no builder in use.
InitK == InitCodec /\ InitContract /\ NoBuilderInUse /\ NoCliInUse

SpecCodec == InitK /\ [][NextCodec]_vars

\* One call of a command-line helper: the Contract as constructed, no builder
\* and no codec in use.
InitH == InitCliHelpers /\ InitContract /\ NoBuilderInUse /\ NoCodecInUse

SpecCli == InitH /\ [][NextCli]_vars

(***************************************************************************)
(* Properties of the dispatcher                                            *)
(***************************************************************************)
Invoked(l) == l.op \in {"start", "executeMethod"}

RECURSIVE FoldChain(_, _, _)
\* The left fold of the handlers of ch over (accountInfo, contractInput):
\* the first handler is called with two arguments, every later one with the
\* value of the handlers before it.
FoldChain(ch, accountInfo, contractInput) ==
    IF Len(ch) = 1 THEN Result(ch[1], Args2(accountInfo, contractInput))
    ELSE Result(ch[Len(ch)],
                Args3(accountInfo, contractInput,
                      FoldChain(SubSeq(ch, 1, Len(ch) - 1), accountInfo, contractInput)))

Throwing(ch) == \E i \in 1..Len(ch) : ch[i] = "boom"

\* C1: after a plain registration of a name followed by n extensions, an
\* invocation of the name returns the left fold of the registered handlers in
\* registration order, the first-registered handler innermost: for three
\* handlers base, H1, H2 the value is H2(H1(base())).
C1_CompositionOrder ==
    [][(Invoked(last') /\ chain[last'.methodName] # <<>> /\ ~Throwing(chain[last'.methodName]))
        => /\ last'.status = "returned"
           /\ last'.value = FoldChain(chain[last'.methodName],
                                      last'.input.accountInfo, last'.input.contractInput)]_vars

\* An invocation returned g(f(R0)) with g and f different handlers.
C1_Witness ==
    /\ Invoked(last)
    /\ last.status = "returned"
    /\ last.value.t = "result"
    /\ last.value.args.argc = 3
    /\ last.value.args.previous.t = "result"
    /\ last.value.args.previous.by # last.value.by
    /\ last.value.args.previous.args.argc = 3
    /\ last.value.args.previous.args.previous.t = "result"
    /\ last.value.args.previous.args.previous.args.argc = 2

\* C2: an invocation whose contractFn was never passed to
\* addOrExtendMethodStrategy, whatever the string, calls no handler, returns
\* nothing and fails with the error "Unknown method: <contractFn>".
C2_UnknownMethod ==
    (Invoked(last) /\ ~last.wasRegistered)
        => /\ last.status = "threw"
           /\ last.error = UnknownMethodError(last.methodName)
           /\ last.trace = <<>>

\* C3: after addOrExtendMethodStrategy(name, handler, extend) with extend
\* false, or with no entry registered for name before, the table entry of name
\* is exactly handler.
C3_PlainRegistration ==
    (last.op = "addOrExtendMethodStrategy" /\ (~last.extend \/ ~last.wasRegistered))
        => Get(methodStrategies, last.methodName) = UserFn(last.handler)

CallsIn(tr, from) == {i \in from..Len(tr) : tr[i].ev = "call"}

\* What an invocation of the entry e of a name does, given what p, an
\* invocation of the entry registered before, does: p's calls come first and
\* whole; if p returned, newHandler is then called once with p's value as its
\* third argument and its outcome is the outcome; if p threw, nothing follows.
ExtendsPrevious(e, newHandler, args, p, n) ==
    LET k == Len(p.trace)
    IN  /\ Len(n.trace) >= k + 2
        /\ n.trace[1] = CallEvent(e, args)
        /\ SubSeq(n.trace, 2, k + 1) = p.trace
        /\ IF p.status = "returned"
           THEN /\ Len(n.trace) >= k + 4
                /\ n.trace[k + 2] =
                      CallEvent(newHandler, Args3(args.accountInfo, args.contractInput, p.value))
                /\ CallsIn(n.trace, k + 2) = {k + 2}
                /\ n.trace[Len(n.trace) - 1].fn = newHandler
                /\ n.trace[Len(n.trace) - 1].ev = (IF n.status = "returned" THEN "return" ELSE "throw")
                /\ n.status = "returned" => n.value = n.trace[Len(n.trace) - 1].value
                /\ n.status = "threw" => n.error = n.trace[Len(n.trace) - 1].error
           ELSE /\ CallsIn(n.trace, k + 2) = {}
                /\ n.status = "threw"
                /\ n.error = p.error

\* C4: when addOrExtendMethodStrategy(name, newHandler, true) is called
\* while an entry is registered for name, an invocation of name first calls
\* the previously registered handler once with (accountInfo, contractInput)
\* and, only after that has returned, newHandler once with (accountInfo,
\* contractInput, previousResult); the invocation's result is newHandler's.
C4_ExtensionCallOrder ==
    [][(last'.op = "addOrExtendMethodStrategy" /\ last'.extend /\ last'.methodName \in registered)
        => \A input \in Inputs :
              input.contractInput.contractFn = last'.methodName
              => LET args == Args2(input.accountInfo, input.contractInput)
                     prev == Get(methodStrategies, last'.methodName)
                     e == Get(methodStrategies', last'.methodName)
                     p == Call(prev, args, ContractState', <<>>)
                     n == executeMethod(ContractState', input.accountInfo, input.contractInput)
                 IN  /\ p.trace[1] = CallEvent(prev, args)
                     /\ ExtendsPrevious(e, UserFn(last'.handler), args, p, n)]_vars

\* An invocation of an extended entry: the handler registered before returned
\* and the new handler was called after it.
C4_Witness ==
    /\ Invoked(last)
    /\ last.wasRegistered
    /\ last.status = "returned"
    /\ Len(last.trace) >= 6
    /\ last.trace[1].fn.kind = "composed"
    /\ last.trace[1].fn.originalStrategy.kind = "user"
    /\ last.trace[4].ev = "call"
    /\ last.trace[4].args.argc = 3

FirstThrow(tr) == CHOOSE i \in 1..Len(tr) : tr[i].ev = "throw" /\ \A j \in 1..(i - 1) : tr[j].ev # "throw"

\* C5: an invocation in which a handler of the chain fails, or whose method
\* is unknown, fails as a whole with that error: no handler is called after
\* the failure and no value is returned.
C5_NoPartialSuccess ==
    Invoked(last)
        => /\ ~last.wasRegistered
                => last.status = "threw" /\ last.error = UnknownMethodError(last.methodName)
           /\ (\E i \in 1..Len(last.trace) : last.trace[i].ev = "throw")
                => /\ last.status = "threw"
                   /\ last.value = Undefined
                   /\ last.error = last.trace[FirstThrow(last.trace)].error
                   /\ CallsIn(last.trace, FirstThrow(last.trace)) = {}

\* C6 as stated: once a start call has begun, no step changes the table.
C6_ReadOnlyAfterStart ==
    [][started => methodStrategies' = methodStrategies]_vars

Registers(l) ==
    \/ l.op = "addOrExtendMethodStrategy"
    \/ \E i \in 1..Len(l.trace) : l.trace[i].ev = "addOrExtendMethodStrategy"

\* C6, amended: the table is written only by calls of
\* addOrExtendMethodStrategy, before or after the first start; start and
\* executeMethod change it only through such a call made by a running handler.
C6_WrittenOnlyByRegistration ==
    [][methodStrategies' # methodStrategies => Registers(last')]_vars

\* A registration made after a start call has begun.
C6_Witness ==
    /\ started
    /\ last.op = "addOrExtendMethodStrategy"
    /\ Get(methodStrategies, last.methodName).t = "fn"

\* C7: start(input) does what executeMethod(input.accountInfo,
\* input.contractInput) does in the same state: the same calls with the same
\* arguments, the same value or error, the same effect on the table.
C7_StartIsExecuteMethod ==
    [][last'.op = "start"
        => LET r == executeMethod(ContractState, last'.input.accountInfo, last'.input.contractInput)
           IN  /\ last'.status = r.status
               /\ last'.value = r.value
               /\ last'.error = r.error
               /\ last'.trace = r.trace
               /\ methodStrategies' = r.st.methodStrategies]_vars

\* A start call that ran a composed handler to its value.
C7_Witness ==
    /\ last.op = "start"
    /\ last.status = "returned"
    /\ last.value.t = "result"
    /\ last.value.args.argc = 3
    /\ last.value.args.accountInfo \in AccountInfos

(***************************************************************************)
(* Properties of the builders                                              *)
(***************************************************************************)
Built == out # NoValue

BuiltBy(classes) == Built /\ builtFrom.builder.class \in classes

\* C8: a value build() has returned is immutable: whatever setter, add or
\* extend call is made on the builder afterwards, the value, its lists
\* included, reads as it did when build() returned.
C8_BuiltValueImmutable ==
    Built => Read(out, builder) = Read(out, builtFrom.builder)

IdentityFields ==
    {"programNamespace", "programId", "programOwner", "to", "token",
     "transferFrom", "transferTo", "caller", "burnFrom"}

IsWrapper(v) == v.t \in {"AddressOrNamespace", "Address"}

IdentityBuilders ==
    {"TokenDistributionBuilder", "CreateInstructionBuilder",
     "TransferInstructionBuilder", "BurnInstructionBuilder"}

\* C9 as stated: in the value built by TokenDistributionBuilder,
\* CreateInstructionBuilder, TransferInstructionBuilder or
\* BurnInstructionBuilder no identity field holds a wrapper object.
C9_NormalizedAtBuild ==
    BuiltBy(IdentityBuilders)
        => \A f \in IdentityFields \cap DOMAIN Payload(out) : ~IsWrapper(Payload(out)[f])

\* C9, amended: only TokenDistributionBuilder normalizes at build time. Its
\* built value holds, in programId and to, the toJson() form of an
\* AddressOrNamespace given to the setter (another value as given, null if
\* unset), never the wrapper, and in updateFields the toJson() forms. The
\* Create, Transfer and Burn builders put every identity value in the built
\* instruction exactly as it was given to the setter.
C9_OnlyTokenDistributionNormalizes ==
    /\ BuiltBy({"TokenDistributionBuilder"})
        => /\ \A f \in {"programId", "to"} :
                LET given == builtFrom.builder.fields[f]
                IN  /\ out[f].t # "AddressOrNamespace"
                    /\ out[f] = IF given.t = "AddressOrNamespace"
                                THEN Plain(given.variant, given.id)
                                ELSE given
           /\ \A i \in 1..Len(out.updateFields.items) : out.updateFields.items[i].t = "plain"
    /\ BuiltBy(IdentityBuilders \ {"TokenDistributionBuilder"})
        => \A f \in IdentityFields \cap DOMAIN Payload(out) :
                Payload(out)[f] = builtFrom.builder.fields[f]

\* A TokenDistribution built from two wrappers and holding their plain forms.
C9_Witness ==
    /\ BuiltBy({"TokenDistributionBuilder"})
    /\ builtFrom.builder.fields.programId.t = "AddressOrNamespace"
    /\ builtFrom.builder.fields.to.t = "AddressOrNamespace"
    /\ out.programId = Plain("namespace", "this")
    /\ out.to = Plain("address", "0x02")

\* The builders of C10: every builder with a list field but OutputBuilder.
ListBuilders == DOMAIN Classes \ {"OutputBuilder"}

\* The form in which build() hands on the items of a list field.
AsBuilt(class, f, items) ==
    IF class = "TokenDistributionBuilder" /\ f = "updateFields"
    THEN [i \in 1..Len(items) |-> Plain(items[i].variant, items[i].id)]
    ELSE items

\* C10: every list field of a builder holds the items supplied by all add
\* and extend calls so far, in call order (so no call removes or reorders an
\* earlier item and an empty extension changes nothing), and the list of a
\* built value is that concatenation as it was when build() was called.
C10_Accumulate ==
    /\ builder.class \in ListBuilders
        => \A f \in DOMAIN builder.lists : builder.lists[f] = supplied[f]
    /\ BuiltBy(ListBuilders)
        => \A f \in DOMAIN builtFrom.builder.lists :
                Read(out, builtFrom.builder)[f] =
                    AsBuilt(builtFrom.builder.class, f, builtFrom.supplied[f])

\* A value built with a list of two different items.
C10_Witness ==
    /\ BuiltBy(ListBuilders)
    /\ \E f \in DOMAIN builtFrom.builder.lists :
          /\ Len(builtFrom.supplied[f]) >= 2
          /\ builtFrom.supplied[f][1] # builtFrom.supplied[f][2]
          /\ Read(out, builtFrom.builder)[f] =
                AsBuilt(builtFrom.builder.class, f, builtFrom.supplied[f])

\* C11: after any sequence of OutputBuilder.addInstruction calls, build()
\* returns an Outputs whose instruction list holds exactly the added
\* instructions, one per add call, in the order they were added.
C11_InstructionOrder ==
    BuiltBy({"OutputBuilder"})
        => /\ out.t = "Outputs"
           /\ Items(out.instructions, builtFrom.builder) = builtFrom.supplied.instructions

\* An Outputs built after addInstruction(i2) then addInstruction(i1).
C11_Witness ==
    /\ BuiltBy({"OutputBuilder"})
    /\ builtFrom.supplied.instructions =
          <<Object("Instruction", "i2"), Object("Instruction", "i1")>>
    /\ Items(out.instructions, builtFrom.builder) = builtFrom.supplied.instructions

NeverSet(f) == builtFrom.passed[f] = NoValue

NeverAddedTo(f) == builtFrom.supplied[f] = <<>>

\* C12: builders validate nothing: whatever setters were called, none
\* included, build() returns a value, and in it every scalar field that was
\* never set is null and every list field never added to is the empty list.
C12_NoValidation ==
    /\ lastCall.method = "build"
        => /\ Built
           /\ out.t \in {"Instruction", "TokenDistribution", "Outputs"}
    /\ Built
        => LET v == Read(out, builtFrom.builder)
           IN  /\ \A f \in DOMAIN builtFrom.passed \cap DOMAIN v : NeverSet(f) => v[f] = Null
               /\ \A f \in DOMAIN builtFrom.supplied : NeverAddedTo(f) => v[f] = <<>>

\* A CreateInstruction built by a builder on which no method was called.
C12_Witness ==
    /\ BuiltBy({"CreateInstructionBuilder"})
    /\ \A f \in DOMAIN builtFrom.passed : NeverSet(f)
    /\ NeverAddedTo("distribution")
    /\ out.value.programId = Null
    /\ Items(out.value.distribution, builtFrom.builder) = <<>>

\* The tag each instruction builder is to give its Instruction.
TagOf ==
    [CreateInstructionBuilder |-> "create",
     UpdateInstructionBuilder |-> "update",
     TokenUpdateBuilder |-> "update",
     TransferInstructionBuilder |-> "transfer",
     BurnInstructionBuilder |-> "burn"]

\* The fields of the payload variant of each tag.
PayloadFields ==
    [create |-> {"programNamespace", "programId", "programOwner", "totalSupply",
                 "initializedSupply", "distribution"},
     update |-> {"updates"},
     transfer |-> {"token", "transferFrom", "transferTo", "amount", "ids"},
     burn |-> {"caller", "programId", "token", "burnFrom", "amount", "tokenIds"}]

\* C13: in every builder state the Create, Update (and TokenUpdate),
\* Transfer and Burn builders build an Instruction tagged exactly create,
\* update, transfer and burn, with one payload of the variant of that tag:
\* the wire object has the tag as its only top-level key.
C13_TagFidelity ==
    BuiltBy(DOMAIN TagOf)
        => LET tag == TagOf[builtFrom.builder.class]
           IN  /\ out.t = "Instruction"
               /\ out.kind = tag
               /\ DOMAIN out.value = PayloadFields[tag]
               /\ DOMAIN Instruction_toJson(out) = {tag}
               /\ Instruction_toJson(out)[tag] = out.value

\* A burn instruction built after setCaller and setAmount.
C13_Witness ==
    /\ BuiltBy({"BurnInstructionBuilder"})
    /\ out.kind = "burn"
    /\ out.value.caller = Address("0x01")
    /\ out.value.amount = Str("1")
    /\ DOMAIN Instruction_toJson(out) = {"burn"}

\* The value v is held by the built payload r: in a field or in a list.
Holds(r, v) ==
    \E g \in DOMAIN r :
        \/ r[g] = v
        \/ g \in ListFields /\ \E i \in 1..Len(r[g]) : r[g][i] = v

\* C14: the Instruction TokenUpdateBuilder.build() returns contains the
\* account given to addUpdateAccountAddress and the token given to
\* addTokenAddress before.
C14_AccountAndTokenInBuilt ==
    BuiltBy({"TokenUpdateBuilder"})
        => \A f \in {"account", "token"} :
              builtFrom.passed[f] # NoValue
                  => Holds(Read(out, builtFrom.builder), builtFrom.passed[f])

\* What setInputs was last called with; null if it never was.
LastInputs(p) == IF p.inputs = NoValue THEN Null ELSE p.inputs

\* C15: the inputs of the Outputs that OutputBuilder.build() returns is
\* the argument of the most recent setInputs call as it was given, null if
\* there was none; the builder holds that value whatever addInstruction
\* calls are made in between.
C15_InputsPassthrough ==
    /\ builder.class = "OutputBuilder" => builder.fields.inputs = LastInputs(passed)
    /\ BuiltBy({"OutputBuilder"}) => out.inputs = LastInputs(builtFrom.passed)

\* An Outputs built with inputs in1 and an instruction; setInputs(in2) was
\* called on the builder afterwards.
C15_Witness ==
    /\ BuiltBy({"OutputBuilder"})
    /\ Len(builtFrom.supplied.instructions) >= 1
    /\ out.inputs = Object("ComputeInputs", "in1")
    /\ passed.inputs = Object("ComputeInputs", "in2")
    /\ builder.fields.inputs = Object("ComputeInputs", "in2")
    /\ lastCall.method = "setInputs"

\* The setter, add and extend methods of the class of builder b.
ChainingMethods(b) == {m.method : m \in Classes[b.class].methods}

\* C16: every setter, add and extend method of every builder returns the
\* builder it was called on: the next call of a chain has that one builder
\* as its receiver, as a call made on the builder directly has.
C16_ReturnsThis ==
    (builder.class # "none" /\ lastCall.method \in ChainingMethods(builder))
        => /\ lastCall.returned = This
           /\ Receivers = {This}

\* A TransferInstructionBuilder after setAmount(...).extendTokenIds([t1, t2]).
C16_Witness ==
    /\ builder.class = "TransferInstructionBuilder"
    /\ lastCall = [method |-> "extendTokenIds", returned |-> This]
    /\ builder.fields.amount = Str("1")
    /\ builder.lists.ids = <<Str("t1"), Str("t2")>>

(***************************************************************************)
(* Properties of the numeric codec                                         *)
(***************************************************************************)
Encoded == stage \in {"hex", "decoded"}

Decoded == stage = "decoded"

\* A decimal string without its insignificant trailing zeros: those that end
\* the fractional part, and the point when no fractional digit is left.
TrailingZerosStripped(s) ==
    LET fraction == trimEnd(decimalPart(s), "0")
    IN  IF fraction = <<>> THEN integerPart(s) ELSE integerPart(s) \o <<".">> \o fraction

RECURSIVE LeadingZerosStripped(_)
\* A decimal string without the zeros that lead its integer part.
LeadingZerosStripped(s) ==
    IF Len(integerPart(s)) > 1 /\ s[1] = "0" THEN LeadingZerosStripped(Tail(s)) ELSE s

\* C17 as stated: the round trip of a decimal string d gives d with its
\* insignificant trailing zeros stripped.
C17_RoundTrip ==
    (Decoded /\ amountGiven.t = "string")
        => decoded = TrailingZerosStripped(amountGiven.chars)

\* C17, amended: for every non-negative decimal string d with at most 18
\* fractional digits, formatHexToAmount(formatAmountToHex(d)) is d without
\* its insignificant zeros: the trailing zeros of the fractional part (and
\* the point, if no fractional digit is left) and the leading zeros of the
\* integer part (all but its last digit, if it is zero).
C17_RoundTripCanonical ==
    (Decoded /\ amountGiven.t = "string" /\ Len(decimalPart(amountGiven.chars)) <= Decimals)
        => decoded = LeadingZerosStripped(TrailingZerosStripped(amountGiven.chars))

\* The round trip of "01.10" gave "1.1".
C17_Witness ==
    /\ Decoded
    /\ amountGiven = Text(<<"0", "1", ".", "1", "0">>)
    /\ decoded = <<"1", ".", "1">>

RECURSIVE MulAdd(_, _, _)
\* n * m + c for the integer with decimal digits n (<<>> is zero).
MulAdd(n, m, c) ==
    IF n = <<>>
    THEN IF c = 0 THEN <<>> ELSE MulAdd(<<>>, m, c \div 10) \o <<c % 10>>
    ELSE LET v == n[Len(n)] * m + c
         IN  MulAdd(SubSeq(n, 1, Len(n) - 1), m, v \div 10) \o <<v % 10>>

RECURSIVE ValueOf(_, _)
\* The integer whose digits in base B are ds, most significant first.
ValueOf(ds, B) ==
    IF ds = <<>> THEN <<>>
    ELSE MulAdd(ValueOf(SubSeq(ds, 1, Len(ds) - 1), B), B, ds[Len(ds)])

RECURSIVE TimesPowerOf10(_, _)
TimesPowerOf10(n, e) == IF e = 0 THEN n ELSE TimesPowerOf10(MulAdd(n, 10, 0), e - 1)

\* d * 10^Decimals for the decimal string d: the integer of its digits, the
\* point left out, times ten for every fractional digit short of Decimals.
Scaled(d) ==
    LET ds == integerPart(d) \o decimalPart(d)
    IN  Normal(TimesPowerOf10(ValueOf([i \in 1..Len(ds) |-> DigitOf(ds[i])], 10),
                              Decimals - Len(decimalPart(d))))

\* The integer a wire amount encodes: its hex digits after "0x", big-endian.
Encodes(h) == Normal(ValueOf(Normal([i \in 1..(Len(h) - 2) |-> DigitOf(h[i + 2])]), 16))

Zeros(n) == [i \in 1..n |-> "0"]

InvocationOf(st, name, accountInfo) ==
    LET r == executeMethod(st, accountInfo, [contractFn |-> name])
    IN  [status |-> r.status, value |-> r.value, error |-> r.error]

\* C19: addOrExtendMethodStrategy(name, handler, extend), extend true or
\* false, changes the table entry of name only: for every other method name
\* the handler the table gives, and so the result of invoking it, is the same
\* before and after the call.
C19_RegistrationFrame ==
    [][last'.op = "addOrExtendMethodStrategy"
        => \A other \in Names \ {last'.methodName} :
              /\ Get(methodStrategies', other) = Get(methodStrategies, other)
              /\ \A a \in AccountInfos :
                    InvocationOf(ContractState', other, a) = InvocationOf(ContractState, other, a)]_vars

(***************************************************************************)
(* More properties of the builders                                         *)
(***************************************************************************)
\* The scalar fields hold what their setters were last called with, the
\* lists what the add and extend calls supplied, in call order.
HoldsAllCalls(b, p, s) ==
    /\ \A f \in DOMAIN b.fields : b.fields[f] = (IF p[f] = NoValue THEN Null ELSE p[f])
    /\ \A f \in DOMAIN b.lists : b.lists[f] = s[f]

\* C20: build() does not consume or modify its builder: a build() call
\* leaves every field of the builder as it was, a second build() call made
\* right after it returns an equal value, and the calls made after a build()
\* go on accumulating onto the state the builder had.
C20_BuildKeepsBuilder ==
    [][/\ lastCall'.method = "build"
            => (builder' = builder /\ (lastCall.method = "build" => out' = out))
       /\ Built => HoldsAllCalls(builder', passed', supplied')]_vars

\* A builder that was built holding one item and holds two after a later
\* add or extend call: the earlier item, then the new one.
C20_Witness ==
    /\ Built
    /\ lastCall.method # "build"
    /\ builtFrom.builder.class = builder.class
    /\ \E f \in DOMAIN builder.lists :
          /\ Len(builtFrom.builder.lists[f]) = 1
          /\ Len(builder.lists[f]) = 2
          /\ builder.lists[f][1] = builtFrom.builder.lists[f][1]
          /\ builder.lists[f][2] # builder.lists[f][1]

(***************************************************************************)
(* Properties of the command-line helpers                                  *)
(***************************************************************************)
Deciding(e) == e.ev \in {"error", "exit"}

\* The position in the history of the first error or exit event; 0 if none.
FirstDeciding(h) ==
    IF \E i \in 1..Len(h) : Deciding(h[i])
    THEN CHOOSE i \in 1..Len(h) : Deciding(h[i]) /\ \A j \in 1..(i - 1) : ~Deciding(h[j])
    ELSE 0

RECURSIVE StderrBefore(_, _)
\* The stderr data delivered before position k of the history, in order.
StderrBefore(h, k) ==
    IF k <= 1 THEN ""
    ELSE StderrBefore(h, k - 1) \o (IF h[k - 1].ev = "data" THEN h[k - 1].chunk ELSE "")

\* C21: the promise of runTestProcess is settled once, by the first error
\* or exit event of the child: it is fulfilled only by an exit with code 0
\* and rejected by an exit with another code (null after a signal included)
\* or by an error; a later event changes nothing, and the rejection message of
\* an exit holds the stderr data received before that exit.
C21_SettledByFirstEvent ==
    running.fn = "runTestProcess"
        => LET k == FirstDeciding(happened)
           IN  IF k = 0 THEN promise = Pending
               ELSE IF happened[k].ev = "error"
                    THEN promise = [state |-> "rejected", value |-> "Spawn error: Error"]
               ELSE IF happened[k].code = Number(0)
                    THEN promise = [state |-> "fulfilled",
                                    value |-> "Test for " \o running.args.inputJsonPath \o " passed"]
               ELSE promise = [state |-> "rejected",
                               value |-> "Exited with code " \o Template(happened[k].code)
                                             \o ": " \o StderrBefore(happened, k)]

\* stderr data, an exit after a signal, more stderr data, then an error:
\* the promise is rejected with the exit's message and the first chunk.
C21_Witness ==
    /\ running.fn = "runTestProcess"
    /\ happened = <<DataEvent("e1;"), ExitEvent(Null), DataEvent("e2;"), ErrorEvent>>
    /\ promise = [state |-> "rejected", value |-> "Exited with code null: e1;"]

Calls(fns) == running.fn \in fns

CallbackRuns == Len(happened') = Len(happened) + 1 /\ happened'[Len(happened')].ev = "callback"

\* C22: the promise of buildNode, and that of runBuildProcess awaiting it,
\* is fulfilled before the webpack command has finished, and stays fulfilled
\* when the command fails: the failure is written to console.error and never
\* reaches the caller.
C22_ResolvesBeforeBuildEnds ==
    [][Calls({"buildNode", "runBuildProcess"})
        => /\ promise'.state # "rejected"
           /\ CallbackRuns
                => /\ promise = [state |-> "fulfilled", value |-> Undefined]
                   /\ promise' = promise
                   /\ happened'[Len(happened')].tscError # Null
                        => /\ Len(consoleLog') = Len(consoleLog) + 1
                           /\ consoleLog'[Len(consoleLog')].stream = "error"]_vars

\* runBuildProcess was fulfilled, then the webpack command failed.
C22_Witness ==
    /\ Calls({"runBuildProcess"})
    /\ promise = [state |-> "fulfilled", value |-> Undefined]
    /\ happened = <<ExecCallback(Str("Error: Command failed"))>>
    /\ consoleLog = <<Line("error", "Error during TypeScript transpilation: Error: Command failed")>>

\* The arguments each of the three functions requires.
Required ==
    [callCreate |-> {"programAddress", "symbol", "name", "initializedSupply",
                     "recipientAddress", "totalSupply", "secretKey"},
     sendTokens |-> {"programAddress", "recipientAddress", "amount", "secretKey"},
     callProgram |-> {"programAddress", "op", "inputs", "secretKey"}]

EmptyOrMissing(v) == v = Undefined \/ v = Str("")

\* C23: a call of callCreate, sendTokens or callProgram with a required
\* argument empty or missing is rejected with LASR_RPC_URL and VIPFS_ADDRESS
\* left as they were and no command run; a command has been run only in a
\* call whose required arguments are all non-empty.
C23_ValidationBeforeEffects ==
    Calls(DOMAIN Required) =>
        LET invalid == \E n \in Required[running.fn] : EmptyOrMissing(running.args[n])
        IN  /\ invalid => /\ promise.state = "rejected"
                          /\ promise.value.name = "Error"
                          /\ env = EnvUnset
                          /\ commands = <<>>
            /\ commands # <<>> => ~invalid
            /\ env # EnvUnset => ~invalid

\* callCreate thrown out by an empty symbol alone, nothing assigned and
\* nothing run.
C23_Witness ==
    /\ Calls({"callCreate"})
    /\ running.args.symbol = Str("")
    /\ \A n \in Required.callCreate \ {"symbol"} : running.args[n] = Str("0x1")
    /\ promise.state = "rejected"
    /\ env = EnvUnset
    /\ commands = <<>>

Count(ev) == Cardinality({i \in 1..Len(happened) : happened[i].ev = ev})

Failed(i) == happened[i].failed # NoError

\* C24: getSecretKeyFromKeyPairFile initializes the wallet at most once and
\* reads the file at most twice. The wallet is initialized exactly when the
\* first read or parse has failed, and the file is read a second time exactly
\* when that initialization has succeeded; a failure of the initialization or
\* of the second read rejects the promise with that error, nothing following.
C24_RetriesOnce ==
    Calls({"getSecretKeyFromKeyPairFile"}) =>
        /\ Count("initializeWallet") <= 1
        /\ Count("readFile") <= 2
        /\ happened # <<>> =>
              /\ happened[1].ev = "readFile"
              /\ Count("initializeWallet") = (IF Failed(1) THEN 1 ELSE 0)
              /\ Failed(1) => happened[2].ev = "initializeWallet"
              /\ ~Failed(1) => Len(happened) = 1 /\ pc = "done"
        /\ Len(happened) >= 3 =>
              /\ happened[3].ev = "initialized"
              /\ IF Failed(3)
                 THEN /\ Len(happened) = 3
                      /\ pc = "done"
                      /\ promise = [state |-> "rejected", value |-> happened[3].failed]
                 ELSE pc = "done" <=> Len(happened) = 4
        /\ Len(happened) >= 4 =>
              /\ Len(happened) = 4
              /\ happened[4].ev = "readFile"
              /\ Failed(4) => promise = [state |-> "rejected", value |-> happened[4].failed]
        /\ pc = "done" =>
              Count("readFile") = (IF Len(happened) >= 3 /\ ~Failed(3) THEN 2 ELSE 1)

\* No file at first, the wallet initialized once, and the second read failed
\* on what it found: the error has reached the caller.
C24_Witness ==
    /\ Calls({"getSecretKeyFromKeyPairFile"})
    /\ Len(happened) = 4
    /\ happened[1] = ReadEvent(Error("Error", "ENOENT: no such file or directory"))
    /\ happened[4] = ReadEvent(Error("SyntaxError", "JSON.parse"))
    /\ promise = [state |-> "rejected", value |-> Error("SyntaxError", "JSON.parse")]
    /\ pc = "done"

=============================================================================
